---- MODULE Spec2Model ----
(***************************************************************************)
(* Model of the three stateless services of the fitness tracker:           *)
(*   daily_agenda_service.py    (greedy in-order scheduler)                *)
(*   overdue_risk_service.py    (overdue / at-risk classifier)             *)
(*   weekly_summary_service.py  (windowed per-category aggregation)        *)
(* Each service is its own Flask process; they share no state, so each is  *)
(* given its own specification over its own variables.                     *)
(***************************************************************************)
EXTENDS Integers, Sequences, FiniteSets, TLC

\* ------------------------------------------------------------------ bounds
\* longest task list of an agenda request
MaxTasks == 3
\* longest item list of a classifier / summary request
MaxItems == 3

VARIABLES
    \* daily_agenda_service
    agReq,        \* payload of the request being served
    agPc,         \* "idle" | "loop" | "done" | "rejected" | "crashed"
    day_start,    \* datetime, minutes since 1900-01-01 00:00
    day_end,
    current,      \* the cursor
    blocks,       \* emitted blocks, in emission order
    unscheduled,  \* emitted unscheduled entries, in emission order
    idx,          \* number of tasks the for-loop has consumed
    \* overdue_risk_service
    clReq,        \* payload sent to /overdue and /atrisk
    overdueResp,  \* response of find_overdue to clReq (or NoResp)
    atRiskResp,   \* response of find_at_risk to clReq (or NoResp)
    \* weekly_summary_service
    wsReq,
    wsResp

agVars == <<agReq, agPc, day_start, day_end, current, blocks, unscheduled, idx>>
clVars == <<clReq, overdueResp, atRiskResp>>
wsVars == <<wsReq, wsResp>>
vars == <<agVars, clVars, wsVars>>

\* ------------------------------------------------------- JSON scalar values
\* A raw JSON value that the code passes to int(): an integer, a numeric
\* string, a non-numeric string, null, or an absent key.
RawInt(n) == [t |-> "int", n |-> n]
RawNumStr(n) == [t |-> "numstr", n |-> n]
RawStr == [t |-> "str", n |-> 0]
RawNull == [t |-> "null", n |-> 0]
RawAbsent == [t |-> "absent", n |-> 0]

\* int(x) raises TypeError / ValueError for these
IntRaises(raw) == raw.t \in {"str", "null"}

\* int(x) where it does not raise: integers and numeric strings convert
PyInt(raw) == IF raw.t \in {"int", "numstr"} THEN raw.n ELSE 0

\* ------------------------------------------------------------ time of day
\* A "HH:MM" string is the pair <<h, m>>; an absent / empty one is <<>>.
NoTime == <<>>

\* datetime.strptime(t_str, "%H:%M") raises unless both fields are in range
TimeParses(s) == Len(s) = 2 /\ s[1] \in 0..23 /\ s[2] \in 0..59

\* parse_time: minutes since 1900-01-01 00:00
parse_time(s) == s[1] * 60 + s[2]

\* datetime.strftime("%H:%M"): the date part is dropped
strftime(t) == <<(t \div 60) % 24, t % 60>>

\* ------------------------------------------------------------ agenda inputs
WorkdayStarts == {<<9, 0>>, <<17, 0>>, <<9, 60>>, NoTime}
WorkdayEnds == {<<9, 31>>, <<10, 0>>, <<17, 0>>, <<24, 0>>, NoTime}
DateStrs == {"2025-01-06", ""}

\* the duration_minutes values a task may carry
TaskDurations ==
    {RawInt(-5), RawInt(0), RawInt(30), RawInt(60), RawInt(480), RawStr, RawAbsent}

\* task shapes: complete tasks of every duration, plus one lacking "id" and
\* one lacking "title"
TaskShapes ==
    {[hasId |-> TRUE, hasTitle |-> TRUE, dur |-> d] : d \in TaskDurations}
    \cup {[hasId |-> FALSE, hasTitle |-> TRUE, dur |-> RawInt(30)],
          [hasId |-> TRUE, hasTitle |-> FALSE, dur |-> RawInt(30)]}

SeqsUpTo(S, n) == UNION {[1..k -> S] : k \in 0..n}

\* ids are unique within a request: the task at position k has id k
TaskLists == SeqsUpTo(TaskShapes, MaxTasks)

NoReq ==
    [date |-> "", workday_start |-> NoTime, workday_end |-> NoTime, isList |-> TRUE,
     tasks |-> <<>>]

\* ------------------------------------------------------------------- Init
AgInit ==
    /\ agReq = NoReq
    /\ agPc = "idle"
    /\ day_start = 0
    /\ day_end = 0
    /\ current = 0
    /\ blocks = <<>>
    /\ unscheduled = <<>>
    /\ idx = 0

\* ------------------------------------------------- daily_agenda_service.py
\* generate_agenda up to the call of schedule_tasks: the required-field
\* check, the HH:MM check, then lines 15-20 of schedule_tasks.
GenerateAgenda ==
    /\ agPc = "idle"
    /\ \E d \in DateStrs, ws \in WorkdayStarts, we \in WorkdayEnds, ts \in TaskLists,
          isList \in BOOLEAN :
        \* "tasks" is a list, or a JSON number (isList false)
        /\ isList \/ ts = <<>>
        /\ agReq' = [date |-> d, workday_start |-> ws, workday_end |-> we,
                     isList |-> isList, tasks |-> ts]
        /\ blocks' = <<>>
        /\ unscheduled' = <<>>
        /\ idx' = 0
        /\ IF d = "" \/ ws = NoTime \/ we = NoTime
           THEN /\ agPc' = "rejected"
                /\ day_start' = 0 /\ day_end' = 0 /\ current' = 0
           ELSE IF ~TimeParses(ws) \/ ~TimeParses(we)
           THEN /\ agPc' = "rejected"
                /\ day_start' = 0 /\ day_end' = 0 /\ current' = 0
           ELSE \* "for t in tasks" raises TypeError on a number (line 23)
                /\ agPc' = IF isList THEN "loop" ELSE "crashed"
                /\ day_start' = parse_time(ws)
                /\ day_end' = parse_time(we)
                /\ current' = parse_time(ws)
    /\ UNCHANGED <<clVars, wsVars>>

\* mutant: the comparison of line 29 turned around
FitsInverted(block_end, dayEnd) == dayEnd <= block_end

\* the test of line 29
Fits(block_end, dayEnd) == block_end <= dayEnd

\* mutant: the cursor moves whether or not the block was placed
NewCursorAlways(cur, block_end, fits) == block_end

\* mutant: the cursor is never moved
NewCursorStuck(cur, block_end, fits) == cur

\* the cursor after an iteration: line 37 runs in the if-branch only
NewCursor(cur, block_end, fits) == IF fits THEN block_end ELSE cur

\* mutant: a zero duration is not dropped
IsSkippedStrict(duration) == duration < 0

\* the duration test of line 25
IsSkipped(duration) == duration <= 0

\* one iteration of the for-loop of schedule_tasks (lines 23-43)
ScheduleStep ==
    /\ agPc = "loop"
    /\ idx < Len(agReq.tasks)
    /\ LET k == idx + 1
           t == agReq.tasks[k]
           raw == IF t.dur.t = "absent" THEN RawInt(0) ELSE t.dur
           duration == PyInt(raw)
           block_end == current + duration
           \* t["id"] is k: ids are unique within a request
       IN  IF IntRaises(raw)
           THEN \* int() raises ValueError: the handler dies
                /\ agPc' = "crashed"
                /\ UNCHANGED <<current, blocks, unscheduled, idx>>
           ELSE IF IsSkipped(duration)
           THEN /\ idx' = k
                /\ UNCHANGED <<agPc, current, blocks, unscheduled>>
           ELSE IF ~t.hasId \/ ~t.hasTitle
           THEN \* t["id"] / t["title"] raises KeyError in either branch
                /\ agPc' = "crashed"
                /\ UNCHANGED <<current, blocks, unscheduled, idx>>
           ELSE IF Fits(block_end, day_end)
           THEN /\ blocks' = Append(blocks,
                        [task_id |-> k, start |-> strftime(current),
                         end |-> strftime(block_end), unscheduled |-> FALSE])
                /\ current' = NewCursor(current, block_end, TRUE)
                /\ idx' = k
                /\ UNCHANGED <<agPc, unscheduled>>
           ELSE /\ unscheduled' = Append(unscheduled,
                        [task_id |-> k, unscheduled |-> TRUE])
                /\ current' = NewCursor(current, block_end, FALSE)
                /\ idx' = k
                /\ UNCHANGED <<agPc, blocks>>
    /\ UNCHANGED <<agReq, day_start, day_end, clVars, wsVars>>

\* line 45 and the jsonify of lines 67-71
ScheduleReturn ==
    /\ agPc = "loop"
    /\ idx = Len(agReq.tasks)
    /\ agPc' = "done"
    /\ UNCHANGED <<agReq, day_start, day_end, current, blocks, unscheduled, idx,
                   clVars, wsVars>>

\* the response is sent and the handler's locals are discarded
AgendaRespond ==
    /\ agPc \in {"done", "rejected", "crashed"}
    /\ agReq' = NoReq
    /\ agPc' = "idle"
    /\ day_start' = 0 /\ day_end' = 0 /\ current' = 0
    /\ blocks' = <<>> /\ unscheduled' = <<>> /\ idx' = 0
    /\ UNCHANGED <<clVars, wsVars>>

NextAgenda == GenerateAgenda \/ ScheduleStep \/ ScheduleReturn \/ AgendaRespond


\* ------------------------------------------------------------------ dates
\* A "YYYY-MM-DD" string is the triple <<y, m, d>>; an absent one is <<>>.
\* A datetime.date is the same triple once strptime has accepted it.
NoDate == <<>>

IsLeap(y) == y % 4 = 0 /\ (y % 100 # 0 \/ y % 400 = 0)

DaysInMonth(y, m) ==
    IF m = 2 THEN (IF IsLeap(y) THEN 29 ELSE 28)
    ELSE IF m \in {4, 6, 9, 11} THEN 30 ELSE 31

\* datetime.strptime(s, "%Y-%m-%d") accepts exactly the calendar dates
DateParses(s) ==
    /\ Len(s) = 3
    /\ s[1] \in 1..9999
    /\ s[2] \in 1..12
    /\ s[3] \in 1..DaysInMonth(s[1], s[2])

\* _parse_date_yyyy_mm_dd: the date, or None (NoDate)
_parse_date_yyyy_mm_dd(s) == IF DateParses(s) THEN s ELSE NoDate

RECURSIVE DaysBeforeMonth(_, _)
DaysBeforeMonth(y, m) ==
    IF m = 1 THEN 0 ELSE DaysBeforeMonth(y, m - 1) + DaysInMonth(y, m - 1)

\* date.toordinal(): 0001-01-01 is day 1
toordinal(dt) ==
    LET y == dt[1] - 1
    IN  y * 365 + (y \div 4) - (y \div 100) + (y \div 400)
          + DaysBeforeMonth(dt[1], dt[2]) + dt[3]

\* (a - b).days
DaysBetween(a, b) == toordinal(a) - toordinal(b)

\* a < b on dates: year, then month, then day
DateLT(a, b) ==
    \/ a[1] < b[1]
    \/ (a[1] = b[1] /\ a[2] < b[2])
    \/ (a[1] = b[1] /\ a[2] = b[2] /\ a[3] < b[3])

DateLE(a, b) == a = b \/ DateLT(a, b)

\* the day after dt
NextDay(dt) ==
    IF dt[3] < DaysInMonth(dt[1], dt[2]) THEN <<dt[1], dt[2], dt[3] + 1>>
    ELSE IF dt[2] < 12 THEN <<dt[1], dt[2] + 1, 1>>
    ELSE <<dt[1] + 1, 1, 1>>

\* the day before dt
PrevDay(dt) ==
    IF dt[3] > 1 THEN <<dt[1], dt[2], dt[3] - 1>>
    ELSE IF dt[2] > 1 THEN <<dt[1], dt[2] - 1, DaysInMonth(dt[1], dt[2] - 1)>>
    ELSE <<dt[1] - 1, 12, 31>>

\* dt + timedelta(days=n), n of either sign
RECURSIVE PlusDays(_, _)
PlusDays(dt, n) ==
    IF n = 0 THEN dt
    ELSE IF n > 0 THEN PlusDays(NextDay(dt), n - 1)
    ELSE PlusDays(PrevDay(dt), n + 1)

\* date.weekday(): Monday is 0
weekday(dt) == (toordinal(dt) + 6) % 7

\* the dates date.today() may return while a request is served: a Tuesday,
\* a Sunday and a Monday
Clock == {<<2024, 12, 31>>, <<2025, 1, 5>>, <<2025, 1, 6>>}

\* _parse_today calls date.today() when "today" is absent or does not parse
TodayClockRead(s) == s = NoDate \/ _parse_date_yyyy_mm_dd(s) = NoDate

\* _parse_today: the supplied date if it parses, else the current date
_parse_today(s, now) ==
    IF s = NoDate THEN now
    ELSE IF _parse_date_yyyy_mm_dd(s) = NoDate THEN now
    ELSE _parse_date_yyyy_mm_dd(s)

\* the riskWindowDays used when the payload has none (line 89)
DefaultRiskWindow == 5

\* ------------------------------------------------------ classifier inputs
\* bool(x): false, 0, "" and null are falsy, every other value is truthy
PyBool(c) == c \notin {"false", "0", "null", "str:"}

DeadlineFields == {"id", "title", "dueDate", "completed"}

\* the id of the item at (1-based) position k; ids are unique in a request
ItemId(k) == 100 + k

DeadlineShape(due, c) == [obj |-> TRUE, missing |-> {}, dueDate |-> due, completed |-> c]

DeadlineShapes ==
    {DeadlineShape(due, "false") :
        due \in {<<2024, 12, 28>>, <<2024, 12, 30>>, <<2025, 1, 1>>,
                 <<2025, 1, 2>>, <<2025, 1, 5>>}}
    \cup {DeadlineShape(<<2025, 1, 1>>, "true"),
          \* dueDate "2025-02-30"
          DeadlineShape(<<2025, 2, 30>>, "false"),
          \* an item without title and completed
          [obj |-> TRUE, missing |-> {"title", "completed"},
           dueDate |-> <<2025, 1, 1>>, completed |-> "false"],
          \* a JSON number where an object is expected
          [obj |-> FALSE, missing |-> {}, dueDate |-> NoDate, completed |-> "false"]}

TodayStrs == {NoDate, <<2024, 12, 30>>, <<2025, 2, 30>>}

RiskWindows == {RawAbsent, RawInt(-3), RawInt(1), RawInt(7), RawStr}

NoClReq == [isList |-> FALSE, items |-> <<>>, today |-> NoDate, riskWindowDays |-> RawAbsent]

NoErr == [kind |-> "none", index |-> -1, id |-> -1, fields |-> {}]

NoResp == [status |-> 0, err |-> NoErr, today |-> NoDate, out |-> <<>>, now |-> NoDate]

ClInit ==
    /\ clReq = [phase |-> "idle", data |-> NoClReq]
    /\ overdueResp = NoResp
    /\ atRiskResp = NoResp

\* ------------------------------------------------ overdue_risk_service.py
\* the checks _validate_items makes on the item at 0-based index i
ItemError(item, i, k) ==
    IF ~item.obj
    THEN [kind |-> "not_object", index |-> i, id |-> -1, fields |-> {}]
    ELSE IF item.missing \cap DeadlineFields # {}
    THEN [kind |-> "missing", index |-> i, id |-> -1,
          fields |-> item.missing \cap DeadlineFields]
    ELSE IF _parse_date_yyyy_mm_dd(item.dueDate) = NoDate
    THEN [kind |-> "invalid_dueDate", index |-> -1, id |-> ItemId(k), fields |-> {}]
    ELSE NoErr

\* mutant: an invalid item is dropped and the rest of the batch goes on
ValidateItemsLenient(isList, raw) ==
    [err |-> NoErr,
     items |-> SelectSeq([k \in 1..Len(raw) |->
                            [id |-> ItemId(k), dueDate |-> raw[k].dueDate,
                             completed |-> PyBool(raw[k].completed),
                             bad |-> ItemError(raw[k], k - 1, k) # NoErr]],
                         LAMBDA it : ~it.bad)]

\* _validate_items: (error, None) for the first invalid item, else (None, items)
ValidateItems(isList, raw) ==
    IF ~isList
    THEN [err |-> [kind |-> "not_list", index |-> -1, id |-> -1, fields |-> {}],
          items |-> <<>>]
    ELSE LET bad == {k \in 1..Len(raw) : ItemError(raw[k], k - 1, k) # NoErr}
         IN  IF bad # {}
             THEN LET k == CHOOSE k \in bad : \A j \in bad : k <= j
                  IN  [err |-> ItemError(raw[k], k - 1, k), items |-> <<>>]
             ELSE [err |-> NoErr,
                   items |-> [k \in 1..Len(raw) |->
                                [id |-> ItemId(k), dueDate |-> raw[k].dueDate,
                                 completed |-> PyBool(raw[k].completed),
                                 bad |-> FALSE]]]

\* mutant: an item due today counts as overdue
IsOverdueInclusive(it, today) == ~it.completed /\ DateLE(it.dueDate, today)

\* the test of line 66
IsOverdue(it, today) == ~it.completed /\ DateLT(it.dueDate, today)

\* the loop of find_overdue (lines 64-76)
RECURSIVE OverdueLoop(_, _, _, _)
OverdueLoop(items, today, k, acc) ==
    IF k > Len(items) THEN acc
    ELSE LET it == items[k]
         IN  IF IsOverdue(it, today)
             THEN OverdueLoop(items, today, k + 1,
                      Append(acc, [id |-> it.id, dueDate |-> it.dueDate,
                                   days |-> DaysBetween(today, it.dueDate),
                                   tag |-> "overdue"]))
             ELSE OverdueLoop(items, today, k + 1, acc)

\* mutant: the window is open at its far end
InWindowOpen(days_remaining, risk_window) ==
    0 <= days_remaining /\ days_remaining < risk_window

\* the test of line 97
InWindow(days_remaining, risk_window) ==
    0 <= days_remaining /\ days_remaining <= risk_window

\* mutant: the medium tier reaches one day further
RiskLevelWide(days_remaining) ==
    IF days_remaining = 0 THEN "high"
    ELSE IF days_remaining <= 3 THEN "medium"
    ELSE "low"

\* lines 98-103
RiskLevel(days_remaining) ==
    IF days_remaining = 0 THEN "high"
    ELSE IF days_remaining <= 2 THEN "medium"
    ELSE "low"

\* the loop of find_at_risk (lines 92-112)
RECURSIVE AtRiskLoop(_, _, _, _, _)
AtRiskLoop(items, today, risk_window, k, acc) ==
    IF k > Len(items) THEN acc
    ELSE LET it == items[k]
             days_remaining == DaysBetween(it.dueDate, today)
         IN  IF it.completed
             THEN AtRiskLoop(items, today, risk_window, k + 1, acc)
             ELSE IF InWindow(days_remaining, risk_window)
             THEN AtRiskLoop(items, today, risk_window, k + 1,
                      Append(acc, [id |-> it.id, dueDate |-> it.dueDate,
                                   days |-> days_remaining,
                                   tag |-> RiskLevel(days_remaining)]))
             ELSE AtRiskLoop(items, today, risk_window, k + 1, acc)

\* a client posts one payload to both endpoints
ClassifierRequest ==
    /\ clReq.phase = "idle"
    /\ \E isList \in BOOLEAN, raw \in SeqsUpTo(DeadlineShapes, MaxItems),
          t \in TodayStrs, w \in RiskWindows :
        /\ isList \/ raw = <<>>
        /\ clReq' = [phase |-> "posted",
                     data |-> [isList |-> isList, items |-> raw, today |-> t,
                               riskWindowDays |-> w]]
    /\ overdueResp' = NoResp
    /\ atRiskResp' = NoResp
    /\ UNCHANGED <<agVars, wsVars>>

\* find_overdue (lines 55-78)
FindOverdue ==
    /\ clReq.phase = "posted"
    /\ overdueResp = NoResp
    /\ \E now \in Clock :
        LET data == clReq.data
            v == ValidateItems(data.isList, data.items)
            today == _parse_today(data.today, now)
        IN  IF v.err # NoErr
            THEN overdueResp' = [status |-> 400, err |-> v.err, today |-> NoDate,
                                 out |-> <<>>, now |-> NoDate]
            ELSE overdueResp' = [status |-> 200, err |-> NoErr, today |-> today,
                                 out |-> OverdueLoop(v.items, today, 1, <<>>),
                                 \* what date.today() returned, if it was called
                                 now |-> IF TodayClockRead(data.today) THEN now
                                         ELSE NoDate]
    /\ UNCHANGED <<clReq, atRiskResp, agVars, wsVars>>

\* find_at_risk (lines 81-114)
FindAtRisk ==
    /\ clReq.phase = "posted"
    /\ atRiskResp = NoResp
    /\ \E now \in Clock :
        LET data == clReq.data
            v == ValidateItems(data.isList, data.items)
            today == _parse_today(data.today, now)
            rawWindow == IF data.riskWindowDays.t = "absent"
                         THEN RawInt(DefaultRiskWindow)
                         ELSE data.riskWindowDays
        IN  IF v.err # NoErr
            THEN atRiskResp' = [status |-> 400, err |-> v.err, today |-> NoDate,
                                out |-> <<>>, now |-> NoDate]
            ELSE IF IntRaises(rawWindow)
            THEN \* int() raises: the handler dies with no response body
                 atRiskResp' = [status |-> 500, err |-> NoErr, today |-> NoDate,
                                out |-> <<>>,
                                now |-> IF TodayClockRead(data.today) THEN now
                                        ELSE NoDate]
            ELSE atRiskResp' = [status |-> 200, err |-> NoErr, today |-> today,
                                out |-> AtRiskLoop(v.items, today, PyInt(rawWindow),
                                                   1, <<>>),
                                now |-> IF TodayClockRead(data.today) THEN now
                                        ELSE NoDate]
    /\ UNCHANGED <<clReq, overdueResp, agVars, wsVars>>

\* both responses are read and the exchange is over
ClassifierForget ==
    /\ clReq.phase = "posted"
    /\ overdueResp # NoResp
    /\ atRiskResp # NoResp
    /\ clReq' = [phase |-> "idle", data |-> NoClReq]
    /\ overdueResp' = NoResp
    /\ atRiskResp' = NoResp
    /\ UNCHANGED <<agVars, wsVars>>

NextClassifier == ClassifierRequest \/ FindOverdue \/ FindAtRisk \/ ClassifierForget

\* ------------------------------------------------------- summary inputs
\* A completedAt string: its date, its time of day, and whether it ends in
\* "Z"; garbage has no date.
Stamp(dt, hm, z) == [date |-> dt, time |-> hm, z |-> z]

SummaryFields == {"id", "completedAt", "durationMin"}

\* the category key is absent
NoCategory == "<absent>"

SummaryShape(st, dur, cat, c) ==
    [obj |-> TRUE, missing |-> {}, completedAt |-> st, durationMin |-> dur,
     category |-> cat, completed |-> c]

SummaryShapes ==
    {SummaryShape(Stamp(<<2025, 1, 5>>, <<23, 59>>, FALSE), RawInt(30), "Running", "absent"),
     SummaryShape(Stamp(<<2025, 1, 6>>, <<0, 0>>, TRUE), RawInt(45), "Running", "absent"),
     SummaryShape(Stamp(<<2025, 1, 12>>, <<23, 59>>, FALSE), RawNumStr(20), "Yoga", "absent"),
     SummaryShape(Stamp(<<2025, 1, 13>>, <<0, 0>>, TRUE), RawInt(30), "Yoga", "absent"),
     SummaryShape(Stamp(<<2025, 1, 8>>, <<10, 0>>, TRUE), RawInt(30), NoCategory, "false"),
     SummaryShape(Stamp(<<2024, 12, 30>>, <<0, 0>>, FALSE), RawInt(60), "Running", "true"),
     \* completedAt "2025-01-32T10:00:00"
     SummaryShape(Stamp(<<2025, 1, 32>>, <<10, 0>>, FALSE), RawInt(30), "Running", "absent"),
     \* durationMin "abc"
     SummaryShape(Stamp(<<2025, 1, 8>>, <<10, 0>>, FALSE), RawStr, "Running", "absent"),
     \* an item without id and durationMin
     [obj |-> TRUE, missing |-> {"id", "durationMin"},
      completedAt |-> Stamp(<<2025, 1, 8>>, <<10, 0>>, FALSE), durationMin |-> RawNull,
      category |-> NoCategory, completed |-> "absent"],
     \* a JSON string where an object is expected
     [obj |-> FALSE, missing |-> {}, completedAt |-> Stamp(NoDate, NoTime, FALSE),
      durationMin |-> RawNull, category |-> NoCategory, completed |-> "absent"]}

WeekStarts == {NoDate, <<2025, 1, 6>>, <<2025, 2, 30>>}
WeekEnds == {NoDate, <<2025, 1, 12>>, <<2025, 2, 30>>}

NoWsReq == [isList |-> FALSE, items |-> <<>>, weekStart |-> NoDate, weekEnd |-> NoDate]

\* no exchange with the summary service is under way
WsIdleReq == [phase |-> "idle", data |-> NoWsReq, now |-> NoDate]

NoWsResp ==
    [status |-> 0, err |-> NoErr, weekStart |-> NoDate, weekEnd |-> NoDate,
     totalCompleted |-> 0, totalDurationMin |-> 0, byCategory |-> <<>>]

WsInit ==
    /\ wsReq = WsIdleReq
    /\ wsResp = NoWsResp

\* ----------------------------------------------- weekly_summary_service.py
\* _parse_iso_datetime: a trailing "Z" is cut off, then fromisoformat accepts
\* a calendar date with a time of day; None (NoDate) otherwise
_parse_iso_datetime(st) ==
    IF DateParses(st.date) /\ TimeParses(st.time) THEN st.date ELSE NoDate

\* the checks _validate_items makes on the item at 0-based index i
SummaryItemError(item, i, k) ==
    IF ~item.obj
    THEN [kind |-> "not_object", index |-> i, id |-> -1, fields |-> {}]
    ELSE IF item.missing \cap SummaryFields # {}
    THEN [kind |-> "missing", index |-> i, id |-> -1,
          fields |-> item.missing \cap SummaryFields]
    ELSE IF _parse_iso_datetime(item.completedAt) = NoDate
    THEN [kind |-> "invalid_completedAt", index |-> -1, id |-> ItemId(k), fields |-> {}]
    ELSE IF IntRaises(item.durationMin)
    THEN [kind |-> "invalid_durationMin", index |-> -1, id |-> ItemId(k), fields |-> {}]
    ELSE NoErr

\* item.get("category", "Uncategorized")
CategoryOf(item) == IF item.category = NoCategory THEN "Uncategorized" ELSE item.category

\* _validate_items: (error, None) for the first invalid item, else (None, items);
\* completedAt is kept as the date its .date() gives
ValidateSummaryItems(isList, raw) ==
    IF ~isList
    THEN [err |-> [kind |-> "not_list", index |-> -1, id |-> -1, fields |-> {}],
          items |-> <<>>]
    ELSE LET bad == {k \in 1..Len(raw) : SummaryItemError(raw[k], k - 1, k) # NoErr}
         IN  IF bad # {}
             THEN LET k == CHOOSE k \in bad : \A j \in bad : k <= j
                  IN  [err |-> SummaryItemError(raw[k], k - 1, k), items |-> <<>>]
             ELSE [err |-> NoErr,
                   items |-> [k \in 1..Len(raw) |->
                                [id |-> ItemId(k),
                                 completedAt |-> _parse_iso_datetime(raw[k].completedAt),
                                 durationMin |-> PyInt(raw[k].durationMin),
                                 category |-> CategoryOf(raw[k])]]]

\* mutant: Monday is 1, as isoweekday() counts
isoweekday(dt) == weekday(dt) + 1

\* the weekday _week_bounds steps back by (line 66)
WeekdayOffset(dt) == weekday(dt)

\* _week_bounds reads date.today() when weekStart is absent or does not parse
WeekClockRead(provided_start) ==
    provided_start = NoDate \/ _parse_date_yyyy_mm_dd(provided_start) = NoDate

\* _week_bounds (lines 61-77)
_week_bounds(provided_start, provided_end, now) ==
    LET s0 == IF provided_start # NoDate
              THEN _parse_date_yyyy_mm_dd(provided_start)
              ELSE PlusDays(now, -WeekdayOffset(now))
        start == IF s0 = NoDate THEN now ELSE s0
        end == IF provided_end # NoDate
               THEN (IF _parse_date_yyyy_mm_dd(provided_end) = NoDate
                     THEN PlusDays(start, 6)
                     ELSE _parse_date_yyyy_mm_dd(provided_end))
               ELSE PlusDays(start, 6)
    IN  [start |-> start, end |-> end]

\* mutant: the last day of the window is left out
InWeekOpen(d, week_start, week_end) == DateLE(week_start, d) /\ DateLT(d, week_end)

\* the test of line 96
InWeek(d, week_start, week_end) == DateLE(week_start, d) /\ DateLE(d, week_end)

\* mutant: the entry is overwritten, not added to
BumpOverwrite(f, key, v) ==
    IF key \in DOMAIN f THEN [f EXCEPT ![key] = v] ELSE f @@ (key :> v)

\* defaultdict(int)[key] += v
Bump(f, key, v) ==
    IF key \in DOMAIN f THEN [f EXCEPT ![key] = @ + v] ELSE f @@ (key :> v)

\* the loop of weekly_summary (lines 94-100)
RECURSIVE SummaryLoop(_, _, _, _, _)
SummaryLoop(items, week_start, week_end, k, acc) ==
    IF k > Len(items) THEN acc
    ELSE LET it == items[k]
         IN  IF InWeek(it.completedAt, week_start, week_end)
             THEN SummaryLoop(items, week_start, week_end, k + 1,
                      [total_completed |-> acc.total_completed + 1,
                       total_duration |-> acc.total_duration + it.durationMin,
                       by_cat_counts |-> Bump(acc.by_cat_counts, it.category, 1),
                       by_cat_dur |-> Bump(acc.by_cat_dur, it.category, it.durationMin)])
             ELSE SummaryLoop(items, week_start, week_end, k + 1, acc)

\* weekly_summary (lines 80-118)
WeeklySummary ==
    /\ wsReq.phase = "idle"
    /\ \E isList \in BOOLEAN, raw \in SeqsUpTo(SummaryShapes, MaxItems),
          ws \in WeekStarts, we \in WeekEnds, now \in Clock :
        /\ isList \/ raw = <<>>
        /\ LET v == ValidateSummaryItems(isList, raw)
           IN  wsReq' = [phase |-> "answered",
                         data |-> [isList |-> isList, items |-> raw, weekStart |-> ws,
                                   weekEnd |-> we],
                         \* what date.today() returned, if it was called
                         now |-> IF v.err = NoErr /\ WeekClockRead(ws)
                                 THEN now ELSE NoDate]
        /\ LET v == ValidateSummaryItems(isList, raw)
               b == _week_bounds(ws, we, now)
               acc == SummaryLoop(v.items, b.start, b.end, 1,
                          [total_completed |-> 0, total_duration |-> 0,
                           by_cat_counts |-> <<>>, by_cat_dur |-> <<>>])
           IN  IF v.err # NoErr
               THEN wsResp' = [NoWsResp EXCEPT !.status = 400, !.err = v.err]
               ELSE wsResp' =
                      [status |-> 200, err |-> NoErr, weekStart |-> b.start,
                       weekEnd |-> b.end,
                       totalCompleted |-> acc.total_completed,
                       totalDurationMin |-> acc.total_duration,
                       byCategory |-> [cat \in DOMAIN acc.by_cat_counts |->
                                         [count |-> acc.by_cat_counts[cat],
                                          durationMin |-> acc.by_cat_dur[cat]]]]
    /\ UNCHANGED <<agVars, clVars>>

\* the response is read and the exchange is over
SummaryForget ==
    /\ wsReq.phase = "answered"
    /\ wsReq' = WsIdleReq
    /\ wsResp' = NoWsResp
    /\ UNCHANGED <<agVars, clVars>>

NextAggregator == WeeklySummary \/ SummaryForget

\* ---------------------------------------------------------- specifications

Init == AgInit /\ ClInit /\ WsInit

AgIdle == agPc = "idle"
ClIdle == clReq.phase = "idle"
WsIdle == wsReq.phase = "idle"

\* The services share nothing, so their steps commute: the exchanges are
\* explored one at a time.
Next ==
    \/ (ClIdle /\ WsIdle /\ NextAgenda)
    \/ (AgIdle /\ WsIdle /\ NextClassifier)
    \/ (AgIdle /\ ClIdle /\ NextAggregator)

Spec == Init /\ [][Next]_vars

SpecAgenda == Init /\ [][NextAgenda]_vars

SpecClassifier == Init /\ [][NextClassifier]_vars

SpecAggregator == Init /\ [][NextAggregator]_vars

\* ------------------------------------------------------------------ claims
\* "HH:MM" strings compare as (hour, minute)
TimeLE(a, b) == a[1] < b[1] \/ (a[1] = b[1] /\ a[2] <= b[2])

Scheduling == agPc \in {"loop", "done"}

\* C1: after any prefix of the tasks, every emitted block starts at or after
\* workdayStart and ends at or before workdayEnd, and of any two blocks one
\* ends at or before the other starts.
C1_BlocksInsideWindowDisjoint ==
    Scheduling =>
        /\ \A i \in 1..Len(blocks) :
            /\ TimeLE(agReq.workday_start, blocks[i].start)
            /\ TimeLE(blocks[i].end, agReq.workday_end)
        /\ \A i, j \in 1..Len(blocks) :
            i # j => \/ TimeLE(blocks[i].end, blocks[j].start)
                     \/ TimeLE(blocks[j].end, blocks[i].start)

\* two blocks and an unscheduled task came out of one finished run
C1_Witness ==
    agPc = "done" /\ Len(blocks) >= 2 /\ Len(unscheduled) >= 1

\* the duration the loop sees for a task that reaches the test of line 25
DurationOf(t) == IF t.dur.t = "int" THEN t.dur.n ELSE 0

\* C2: an iteration on a task of duration > 0 that does not fit reports the
\* task unscheduled and leaves the cursor and the blocks as they were; an
\* iteration that places a block starts it at the cursor it found.
C2_NonAdvancingSkip ==
    [][ (agPc = "loop" /\ agPc' = "loop" /\ idx' = idx + 1) =>
          LET t == agReq.tasks[idx + 1]
              d == DurationOf(t)
          IN  /\ (d > 0 /\ current + d > parse_time(agReq.workday_end)) =>
                    /\ unscheduled' = Append(unscheduled,
                                        [task_id |-> idx + 1, unscheduled |-> TRUE])
                    /\ current' = current
                    /\ blocks' = blocks
              /\ (d > 0 /\ current + d <= parse_time(agReq.workday_end)) =>
                    /\ Len(blocks') = Len(blocks) + 1
                    /\ blocks'[Len(blocks')].task_id = idx + 1
                    /\ blocks'[Len(blocks')].start = strftime(current)
                    /\ unscheduled' = unscheduled
    ]_vars

\* the spec's example: A = 480 and B = 30 in a 09:00-09:31 window; A is
\* unscheduled and B gets 09:00-09:30
C2_Witness ==
    /\ agPc = "done"
    /\ agReq.workday_start = <<9, 0>> /\ agReq.workday_end = <<9, 31>>
    /\ Len(agReq.tasks) = 2
    /\ agReq.tasks[1].dur = RawInt(480) /\ agReq.tasks[2].dur = RawInt(30)
    /\ unscheduled = <<[task_id |-> 1, unscheduled |-> TRUE]>>
    /\ blocks = <<[task_id |-> 2, start |-> <<9, 0>>, end |-> <<9, 30>>,
                  unscheduled |-> FALSE]>>

Increasing(ids) == \A i, j \in 1..Len(ids) : i < j => ids[i] < ids[j]
Ids(entries) == [i \in 1..Len(entries) |-> entries[i].task_id]
IdSet(entries) == {entries[i].task_id : i \in 1..Len(entries)}

\* C3: the tasks that came out of the loop so far are exactly the consumed
\* tasks of duration > 0, each in exactly one of blocks and unscheduled and
\* once there; tasks of duration <= 0 are in neither; both lists are in
\* input order.
C3_OutcomesAreThePositiveTasks ==
    Scheduling =>
        /\ IdSet(blocks) \cup IdSet(unscheduled)
              = {k \in 1..idx : DurationOf(agReq.tasks[k]) > 0}
        /\ IdSet(blocks) \cap IdSet(unscheduled) = {}
        /\ Increasing(Ids(blocks))
        /\ Increasing(Ids(unscheduled))
        /\ agPc = "done" => idx = Len(agReq.tasks)

\* a finished run that placed one task, left one out and dropped one
C3_Witness ==
    /\ agPc = "done"
    /\ Len(agReq.tasks) = 3
    /\ Len(blocks) = 1
    /\ Len(unscheduled) = 1


\* the number of days from a forward to b, counted on the calendar
RECURSIVE DaysFromTo(_, _)
DaysFromTo(a, b) == IF ~DateLT(a, b) THEN 0 ELSE 1 + DaysFromTo(NextDay(a), b)

\* b - a in whole days, of either sign
SignedDays(a, b) == IF DateLT(b, a) THEN -DaysFromTo(b, a) ELSE DaysFromTo(a, b)

OutIds(out) == [i \in 1..Len(out) |-> out[i].id]
OutIdSet(out) == {out[i].id : i \in 1..Len(out)}

\* the item's completed flag is false
NotCompleted(item) == item.completed \in {"false", "0"}

\* C4: find_overdue returns exactly the items with completed = false and
\* dueDate < today, in input order, each with daysOverdue = today - dueDate
\* in whole days, and every daysOverdue is at least 1.
C4_OverdueExact ==
    overdueResp.status = 200 =>
        LET raw == clReq.data.items
            today == overdueResp.today
            out == overdueResp.out
        IN  /\ OutIdSet(out) = {ItemId(k) : k \in {j \in 1..Len(raw) :
                                    NotCompleted(raw[j]) /\ DateLT(raw[j].dueDate, today)}}
            /\ Increasing(OutIds(out))
            /\ \A i \in 1..Len(out), k \in 1..Len(raw) :
                 out[i].id = ItemId(k) =>
                    /\ out[i].dueDate = raw[k].dueDate
                    /\ out[i].days = DaysFromTo(raw[k].dueDate, today)
                    /\ out[i].days >= 1
                    /\ out[i].tag = "overdue"

\* two overdue items around one that is not, across the turn of the year
C4_Witness ==
    /\ overdueResp.status = 200
    /\ Len(clReq.data.items) = 3
    /\ OutIds(overdueResp.out) = <<ItemId(1), ItemId(3)>>
    /\ overdueResp.out[1].days # overdueResp.out[2].days
    /\ overdueResp.today[1] = 2025

\* the window the claim gives a request
ClaimedWindow(w) == IF w.t = "absent" THEN 5 ELSE w.n

\* C5: find_at_risk returns exactly the items with completed = false and
\* 0 <= dueDate - today <= riskWindowDays (5 when omitted), in input order.
C5_AtRiskExact ==
    atRiskResp.status = 200 =>
        LET raw == clReq.data.items
            today == atRiskResp.today
            w == ClaimedWindow(clReq.data.riskWindowDays)
            out == atRiskResp.out
        IN  /\ OutIdSet(out) = {ItemId(k) : k \in {j \in 1..Len(raw) :
                                    /\ NotCompleted(raw[j])
                                    /\ 0 <= SignedDays(today, raw[j].dueDate)
                                    /\ SignedDays(today, raw[j].dueDate) <= w}}
            /\ Increasing(OutIds(out))
            /\ \A i \in 1..Len(out), k \in 1..Len(raw) :
                 out[i].id = ItemId(k) =>
                    /\ out[i].dueDate = raw[k].dueDate
                    /\ out[i].days = SignedDays(today, raw[k].dueDate)

\* default window: an item due in exactly 5 days is returned, while an
\* overdue item and a completed one of the same request are not
C5_Witness ==
    /\ atRiskResp.status = 200
    /\ clReq.data.riskWindowDays = RawAbsent
    /\ Len(clReq.data.items) = 3
    /\ Len(atRiskResp.out) = 1
    /\ atRiskResp.out[1].days = 5
    /\ \E k \in 1..3 : clReq.data.items[k].completed = "true"
    /\ \E k \in 1..3 : DateLT(clReq.data.items[k].dueDate, atRiskResp.today)

\* C6: a returned item is "high" exactly when daysRemaining = 0, "medium"
\* exactly when it is 1 or 2, "low" exactly when 3 <= daysRemaining <=
\* riskWindowDays, whatever riskWindowDays is.
C6_RiskTiers ==
    atRiskResp.status = 200 =>
        \A i \in 1..Len(atRiskResp.out) :
            LET e == atRiskResp.out[i]
                w == ClaimedWindow(clReq.data.riskWindowDays)
            IN  /\ e.tag \in {"high", "medium", "low"}
                /\ e.tag = "high" <=> e.days = 0
                /\ e.tag = "medium" <=> e.days \in {1, 2}
                /\ e.tag = "low" <=> (3 <= e.days /\ e.days <= w)

\* one response with daysRemaining 0, 2 and 3: high, medium, low
C6_Witness ==
    /\ atRiskResp.status = 200
    /\ Len(atRiskResp.out) = 3
    /\ \A i \in 1..3 :
         <<atRiskResp.out[i].days, atRiskResp.out[i].tag>>
            = <<<<0, "high">>, <<2, "medium">>, <<3, "low">>>>[i]

BothAnswered ==
    /\ overdueResp.status = 200
    /\ atRiskResp.status = 200
    /\ overdueResp.today = atRiskResp.today

\* the classes of C7 for the item at position k, as the claim words them
InClassAsClaimed(c, k) ==
    LET item == clReq.data.items[k]
        w == ClaimedWindow(clReq.data.riskWindowDays)
    IN  CASE c = 1 -> ~NotCompleted(item)
          [] c = 2 -> ItemId(k) \in OutIdSet(overdueResp.out)
          [] c = 3 -> NotCompleted(item)
                        /\ SignedDays(overdueResp.today, item.dueDate) > w
          [] OTHER -> ItemId(k) \in OutIdSet(atRiskResp.out)

\* C7 as claimed: for the same today, every item is in exactly one of
\* completed, overdue, incomplete and due later than the risk window, at-risk.
C7_PartitionAsClaimed ==
    BothAnswered =>
        \A k \in 1..Len(clReq.data.items) :
            Cardinality({c \in 1..4 : InClassAsClaimed(c, k)}) = 1

\* the classes with the third one restricted to items that are not overdue
InClass(c, k) ==
    LET item == clReq.data.items[k]
        w == ClaimedWindow(clReq.data.riskWindowDays)
    IN  CASE c = 1 -> ~NotCompleted(item)
          [] c = 2 -> ItemId(k) \in OutIdSet(overdueResp.out)
          [] c = 3 -> /\ NotCompleted(item)
                      /\ ~DateLT(item.dueDate, overdueResp.today)
                      /\ SignedDays(overdueResp.today, item.dueDate) > w
          [] OTHER -> ItemId(k) \in OutIdSet(atRiskResp.out)

\* C7 (amended): for the same today, every item is in exactly one of
\* completed, overdue, incomplete and not overdue and due later than the risk
\* window, at-risk; no id is returned by both find_overdue and find_at_risk.
C7_Partition ==
    BothAnswered =>
        /\ \A k \in 1..Len(clReq.data.items) :
              Cardinality({c \in 1..4 : InClass(c, k)}) = 1
        /\ OutIdSet(overdueResp.out) \cap OutIdSet(atRiskResp.out) = {}

\* a negative window, with one item overdue, one at neither end and one
\* completed
C7_Witness ==
    /\ BothAnswered
    /\ clReq.data.riskWindowDays = RawInt(-3)
    /\ Len(clReq.data.items) = 3
    /\ Len(overdueResp.out) = 1
    /\ \E k \in 1..3 : InClass(1, k)
    /\ \E k \in 1..3 : InClass(3, k)


\* the date component of the item's completedAt
CompletedOn(item) == item.completedAt.date

\* the positions of the items whose completion date is inside the window
\* the response reports, both ends included
Included ==
    {k \in 1..Len(wsReq.data.items) :
        /\ DateLE(wsResp.weekStart, CompletedOn(wsReq.data.items[k]))
        /\ DateLE(CompletedOn(wsReq.data.items[k]), wsResp.weekEnd)}

\* C9: an item counts iff the date of its completedAt is in [weekStart,
\* weekEnd], both ends included and at any time of day: the day before
\* weekStart and the day after weekEnd are out; a completed flag plays no part.
C9_WindowInclusive ==
    wsResp.status = 200 =>
        LET raw == wsReq.data.items
        IN  /\ wsResp.totalCompleted = Cardinality(Included)
            /\ \A k \in 1..Len(raw) :
                 /\ CompletedOn(raw[k]) \in {wsResp.weekStart, wsResp.weekEnd}
                       => k \in Included
                 /\ CompletedOn(raw[k]) \in {PrevDay(wsResp.weekStart),
                                             NextDay(wsResp.weekEnd)}
                       => k \notin Included
            /\ (Len(raw) = 1 /\ DateLE(wsResp.weekStart, wsResp.weekEnd)) =>
                 wsResp.totalCompleted
                    = (IF SignedDays(wsResp.weekStart, CompletedOn(raw[1])) >= 0
                          /\ SignedDays(CompletedOn(raw[1]), wsResp.weekEnd) >= 0
                       THEN 1 ELSE 0)

\* window 2025-01-06..2025-01-12: an item at 23:59 of weekEnd and one carrying
\* completed = false are counted, the one of the day after weekEnd is not
C9_Witness ==
    /\ wsResp.status = 200
    /\ wsResp.weekStart = <<2025, 1, 6>> /\ wsResp.weekEnd = <<2025, 1, 12>>
    /\ Len(wsReq.data.items) = 3
    /\ wsReq.data.items[1].completedAt = Stamp(<<2025, 1, 12>>, <<23, 59>>, FALSE)
    /\ wsReq.data.items[2].completedAt.date = <<2025, 1, 13>>
    /\ wsReq.data.items[3].completed = "false"
    /\ wsResp.totalCompleted = 2

\* the duration and the category the claim gives an item
ClaimedDuration(item) == item.durationMin.n
ClaimedCategory(item) ==
    IF item.category = NoCategory THEN "Uncategorized" ELSE item.category

RECURSIVE SumDurations(_)
SumDurations(K) ==
    IF K = {} THEN 0
    ELSE LET k == CHOOSE k \in K : TRUE
         IN  ClaimedDuration(wsReq.data.items[k]) + SumDurations(K \ {k})

RECURSIVE SumField(_, _, _)
SumField(f, D, field) ==
    IF D = {} THEN 0
    ELSE LET c == CHOOSE c \in D : TRUE
         IN  (IF field = "count" THEN f[c].count ELSE f[c].durationMin)
               + SumField(f, D \ {c}, field)

IncludedOf(cat) == {k \in Included : ClaimedCategory(wsReq.data.items[k]) = cat}

\* C10: totalCompleted is the number of included items, totalDurationMin the
\* sum of their durations, the keys of byCategory are exactly the categories
\* of included items, each with the count and the duration sum of its items;
\* the counts add up to totalCompleted and the durations to totalDurationMin.
C10_Aggregates ==
    wsResp.status = 200 =>
        LET by == wsResp.byCategory
        IN  /\ wsResp.totalCompleted = Cardinality(Included)
            /\ wsResp.totalDurationMin = SumDurations(Included)
            /\ DOMAIN by = {ClaimedCategory(wsReq.data.items[k]) : k \in Included}
            /\ \A cat \in DOMAIN by :
                 /\ by[cat].count = Cardinality(IncludedOf(cat))
                 /\ by[cat].count >= 1
                 /\ by[cat].durationMin = SumDurations(IncludedOf(cat))
            /\ SumField(by, DOMAIN by, "count") = wsResp.totalCompleted
            /\ SumField(by, DOMAIN by, "durationMin") = wsResp.totalDurationMin

\* three included items in two categories, one of them the default one
C10_Witness ==
    /\ wsResp.status = 200
    /\ wsResp.totalCompleted = 3
    /\ DOMAIN wsResp.byCategory = {"Running", "Uncategorized"}
    /\ wsResp.byCategory["Running"].count = 2
    /\ wsResp.byCategory["Running"].durationMin = 75
    /\ wsResp.totalDurationMin = 105

\* what makes an item of a classifier request structurally invalid
DeadlineInvalid(item) ==
    \/ ~item.obj
    \/ item.missing \cap {"id", "title", "dueDate", "completed"} # {}
    \/ ~DateParses(item.dueDate)

\* what makes an item of a summary request structurally invalid
SummaryInvalid(item) ==
    \/ ~item.obj
    \/ item.missing \cap {"id", "completedAt", "durationMin"} # {}
    \/ ~(DateParses(item.completedAt.date) /\ TimeParses(item.completedAt.time))
    \/ item.durationMin.t \notin {"int", "numstr"}

\* the request is refused with one error that names the first invalid item by
\* index or by id
NamesOffender(err, isList, raw, Invalid(_)) ==
    /\ err.kind # "none"
    /\ ~isList => err.kind = "not_list"
    /\ isList =>
         LET k == CHOOSE k \in 1..Len(raw) :
                     Invalid(raw[k]) /\ \A j \in 1..(k - 1) : ~Invalid(raw[j])
         IN  \/ (err.index = k - 1 /\ err.id = -1)
             \/ (err.id = ItemId(k) /\ err.index = -1)

BatchInvalid(isList, raw, Invalid(_)) ==
    ~isList \/ \E k \in 1..Len(raw) : Invalid(raw[k])

\* C8: when items is not a list or some item is structurally invalid,
\* find_overdue, find_at_risk and weekly_summary refuse the whole request with
\* one error naming the offending index or id and return no result for the
\* other items.
C8_WholeBatchRejected ==
    /\ \A r \in {overdueResp, atRiskResp} :
         (r # NoResp /\ BatchInvalid(clReq.data.isList, clReq.data.items, DeadlineInvalid))
            => /\ r.status = 400
               /\ r.out = <<>>
               /\ NamesOffender(r.err, clReq.data.isList, clReq.data.items, DeadlineInvalid)
    /\ (wsReq.phase = "answered"
          /\ BatchInvalid(wsReq.data.isList, wsReq.data.items, SummaryInvalid))
            => /\ wsResp.status = 400
               /\ wsResp.totalCompleted = 0
               /\ wsResp.totalDurationMin = 0
               /\ wsResp.byCategory = <<>>
               /\ NamesOffender(wsResp.err, wsReq.data.isList, wsReq.data.items,
                                SummaryInvalid)

\* one invalid dueDate between two valid overdue items: both endpoints answer
\* 400 naming the id of the second item
C8_Witness ==
    /\ clReq.phase = "posted"
    /\ Len(clReq.data.items) = 3
    /\ ~DeadlineInvalid(clReq.data.items[1])
    /\ ~DeadlineInvalid(clReq.data.items[3])
    /\ overdueResp.status = 400 /\ atRiskResp.status = 400
    /\ overdueResp.err.kind = "invalid_dueDate"
    /\ overdueResp.err.id = ItemId(2)

\* 2024-12-30 was a Monday: a date is a Monday iff it is a whole number of
\* weeks away from it
IsMonday(dt) == SignedDays(<<2024, 12, 30>>, dt) % 7 = 0

\* the number of calendar days of the window the response reports
WindowDays ==
    IF DateLT(wsResp.weekEnd, wsResp.weekStart) THEN 0
    ELSE DaysFromTo(wsResp.weekStart, wsResp.weekEnd) + 1

\* C11: with weekStart omitted the window starts on the Monday of the week
\* that holds the current date; with weekEnd omitted it ends 6 days after its
\* start, whether that start was supplied or defaulted; with both omitted the
\* window is exactly 7 calendar days.
C11_DefaultWindow ==
    wsResp.status = 200 =>
        /\ wsReq.data.weekStart = NoDate =>
              /\ IsMonday(wsResp.weekStart)
              /\ DateLE(wsResp.weekStart, wsReq.now)
              /\ DaysFromTo(wsResp.weekStart, wsReq.now) <= 6
        /\ wsReq.data.weekEnd = NoDate =>
              /\ DateLT(wsResp.weekStart, wsResp.weekEnd)
              /\ DaysFromTo(wsResp.weekStart, wsResp.weekEnd) = 6
        /\ (wsReq.data.weekStart = NoDate /\ wsReq.data.weekEnd = NoDate) =>
              WindowDays = 7

\* both bounds omitted on Sunday 2025-01-05: the window is Monday 2024-12-30
\* to that Sunday, and an item completed on the Monday is counted
C11_Witness ==
    /\ wsResp.status = 200
    /\ wsReq.data.weekStart = NoDate /\ wsReq.data.weekEnd = NoDate
    /\ wsReq.now = <<2025, 1, 5>>
    /\ wsResp.weekStart = <<2024, 12, 30>>
    /\ wsResp.weekEnd = <<2025, 1, 5>>
    /\ wsResp.totalCompleted >= 1

\* C12: every request to generate_agenda, find_overdue, find_at_risk and
\* weekly_summary ends in a success result (200) or one validation error
\* (400), never in an unhandled failure.
C12_SuccessOrValidationError ==
    /\ agPc # "crashed"
    /\ overdueResp.status \in {0, 200, 400}
    /\ atRiskResp.status \in {0, 200, 400}
    /\ wsResp.status \in {0, 200, 400}

\* the optional field is absent or does not parse
BadDate(s) == s = NoDate \/ ~DateParses(s)
BadInt(raw) == raw.t \notin {"int", "numstr"}

ClItemsValid == ~BatchInvalid(clReq.data.isList, clReq.data.items, DeadlineInvalid)
WsItemsValid == ~BatchInvalid(wsReq.data.isList, wsReq.data.items, SummaryInvalid)

\* the ids find_at_risk owes for a window of w days
AtRiskIdsFor(today, w) ==
    {ItemId(k) : k \in {j \in 1..Len(clReq.data.items) :
        /\ NotCompleted(clReq.data.items[j])
        /\ 0 <= SignedDays(today, clReq.data.items[j].dueDate)
        /\ SignedDays(today, clReq.data.items[j].dueDate) <= w}}

\* C13: an optional field that is absent or unparsable never produces an
\* error and is replaced by its default: today by the current date,
\* riskWindowDays by 5, weekStart by the Monday of the current week, weekEnd
\* by weekStart + 6 days, category by "Uncategorized".
C13_DefaultsNeverError ==
    /\ \A r \in {overdueResp, atRiskResp} :
         (r # NoResp /\ ClItemsValid /\ BadDate(clReq.data.today)) =>
            /\ r.status = 200
            /\ r.today \in Clock
            /\ r.today = r.now
    /\ (atRiskResp # NoResp /\ ClItemsValid /\ BadInt(clReq.data.riskWindowDays)) =>
            /\ atRiskResp.status = 200
            /\ OutIdSet(atRiskResp.out) = AtRiskIdsFor(atRiskResp.today, 5)
    /\ (wsReq.phase = "answered" /\ WsItemsValid) =>
            /\ wsResp.status = 200
            /\ BadDate(wsReq.data.weekStart) =>
                  /\ IsMonday(wsResp.weekStart)
                  /\ DateLE(wsResp.weekStart, wsReq.now)
                  /\ DaysFromTo(wsResp.weekStart, wsReq.now) <= 6
            /\ BadDate(wsReq.data.weekEnd) =>
                  /\ DateLT(wsResp.weekStart, wsResp.weekEnd)
                  /\ DaysFromTo(wsResp.weekStart, wsResp.weekEnd) = 6
            /\ \A k \in Included :
                  wsReq.data.items[k].category = NoCategory =>
                     "Uncategorized" \in DOMAIN wsResp.byCategory

\* the durations of the tasks that got the first n blocks, added up
RECURSIVE ScheduledMinutes(_)
ScheduledMinutes(n) ==
    IF n = 0 THEN 0
    ELSE DurationOf(agReq.tasks[blocks[n].task_id]) + ScheduledMinutes(n - 1)

\* C14: when schedule_tasks has finished, the first block starts at
\* workdayStart, every later block starts where the one before it ended, the
\* cursor is workdayStart plus the scheduled durations, and no unscheduled task
\* fits after it: cursor + duration > workdayEnd for each of them.
C14_PackedAndNothingLeftThatFits ==
    agPc = "done" =>
        /\ Len(blocks) > 0 => blocks[1].start = agReq.workday_start
        /\ \A i \in 2..Len(blocks) : blocks[i].start = blocks[i - 1].end
        /\ current = parse_time(agReq.workday_start) + ScheduledMinutes(Len(blocks))
        /\ Len(blocks) > 0 => blocks[Len(blocks)].end = strftime(current)
        /\ \A i \in 1..Len(unscheduled) :
              current + DurationOf(agReq.tasks[unscheduled[i].task_id])
                 > parse_time(agReq.workday_end)

\* a task that did not fit between two that did
C14_Witness ==
    /\ agPc = "done"
    /\ Len(blocks) = 2
    /\ Len(unscheduled) = 1
    /\ blocks[1].task_id = 1
    /\ unscheduled[1].task_id = 2
    /\ blocks[2].task_id = 3

====
